---- MODULE Spec2Model ----
(***************************************************************************)
(* Model of the real-time session and signaling engine of                  *)
(* src/socket/socketHandler.js: the presence registry (activeUsers), the   *)
(* call table (activeCalls), the two dedup sets, the ring timers and the   *)
(* event handlers registered on every socket.                              *)
(*                                                                         *)
(* Node.js runs one handler at a time, but an async handler gives up the   *)
(* thread at every `await`.  Each handler is therefore cut at its awaits:  *)
(* the part before the first await is one action, and every continuation   *)
(* is one action on a record kept in `pending`.  A handler step is written *)
(* as an operator from a state record to a state record (suffix F), so     *)
(* that the same steps can be composed into one-at-a-time executions.      *)
(*                                                                         *)
(* callType and callerName are passed through unread and are left out, as  *)
(* is the 'connected' greeting of a new socket.                            *)
(* CallHistory.create is taken to succeed: the record counts as written    *)
(* when create is called, the handler resumes at a later step.             *)
(***************************************************************************)
EXTENDS Integers, Sequences, FiniteSets, Bags, TLC

\* ------------------------------------------------------------ bounds
MaxSockets == 1          \* sockets ever admitted per identity (Spec, SpecChannel)
MaxRequests == 2         \* client events ever received (Spec)
MaxChannelRequests == 3  \* client events ever received (SpecChannel)
MaxSerialRequests == 3   \* client events ever received (SpecSerial)
MaxChatRequests == 3     \* chat requests ever received (SpecChat)
MaxPresenceSockets == 2  \* sockets ever admitted per identity (SpecPresence)
MaxOfferRequests == 3    \* client events ever received (SpecOffer)
MaxInviteRequests == 2   \* client events ever received (SpecInvite)
MaxAuthRequests == 3     \* handshakes, refresh requests and interval ticks (SpecAuth)
MaxTokens == 2           \* refresh tokens ever stored per identity (SpecAuth)

\* ------------------------------------------------------------ data
Users == {"u1", "u2", "u3"}          \* identities that can connect
Channels == {"x", "y"}
NoConn == <<"", 0>>                  \* no socket id
NoTimer == 0
Null == [_id |-> "", isActive |-> FALSE, fcmToken |-> ""]

\* The users collection: u1 and u2 hold a device token, u3 holds none,
\* u0 exists but is inactive; any other id is unknown.
UserFindById(id) ==
  CASE id \in {"u1", "u2"} -> [_id |-> id, isActive |-> TRUE, fcmToken |-> "tok"]
    [] id = "u3" -> [_id |-> id, isActive |-> TRUE, fcmToken |-> ""]
    [] id = "u0" -> [_id |-> id, isActive |-> FALSE, fcmToken |-> "tok"]
    [] OTHER -> Null

\* String(id).trim(): " u1" is u1 with surrounding white space.
Trim(id) == IF id = " u1" THEN "u1" ELSE id

\* offer && (offer.sdp || offer.type) ? { type: offer.type || 'offer', sdp: offer.sdp || '' } : null
NoOffer == [type |-> "", sdp |-> ""]
NoCall == [callerId |-> "", calleeId |-> "", acceptedAt |-> FALSE, offer |-> NoOffer]
\* The normalisation without its null branch.
OfferPayloadAlways(offer) ==
  [type |-> IF offer.type # "" THEN offer.type ELSE "offer", sdp |-> offer.sdp]

OfferPayload(offer) ==
  IF offer.sdp # "" \/ offer.type # ""
  THEN [type |-> IF offer.type # "" THEN offer.type ELSE "offer", sdp |-> offer.sdp]
  ELSE NoOffer

\* Credentials.  A token names the identity it was minted for; `valid` is
\* FALSE once it has expired, n tells successive refresh tokens of one
\* identity apart.
NoToken == [kind |-> "", userId |-> "", valid |-> FALSE, n |-> 0]
AccessToken(u) == [kind |-> "access", userId |-> u, valid |-> TRUE, n |-> 0]
RefreshToken(u, n) == [kind |-> "refresh", userId |-> u, valid |-> TRUE, n |-> n]
Expired(t) == [t EXCEPT !.valid = FALSE]

\* utils/jwt: the decoded userId, "" for null
verifyAccessToken(t) == IF t.kind = "access" /\ t.valid THEN t.userId ELSE ""
verifyRefreshToken(t) == IF t.kind = "refresh" /\ t.valid THEN t.userId ELSE ""
generateAccessToken(u) == AccessToken(u)

VARIABLES
  activeUsers,                \* userId -> socket id, NoConn when absent
  sockets,                    \* sockets ever admitted: <<socket.userId, k>> is the
                              \* k-th socket of that identity
  connected,                  \* sockets that are open
  activeCalls,                \* channelId -> call record, NoCall when absent
  callInviteSentForChannel,   \* set of channelIds
  callRingTimeouts,           \* channelId -> timeoutId, NoTimer when absent
  endedOrRejectedChannels,    \* set of channelIds
  timers,                     \* scheduled ring timeouts (setTimeout not yet fired or cleared)
  nextTimer,                  \* next timeoutId
  pending,                    \* bag of handlers suspended at an await
  emitted,                    \* bag of events emitted and pushes dispatched
  history,                    \* bag of CallHistory documents
  validated,                  \* channels whose call-invite reached line 164
  responded,                  \* channels whose CallSession was accepted, rejected or ended
  firedFirst,                 \* channels whose ring timer fired before any response
  touched,                    \* channels named by an accept, reject or end received,
                              \* or in flight at a disconnect
  nreq,                       \* client events received so far
  log,                        \* bag of the client events received (kept by SpecSerial)
  chats,                      \* the chats collection: chat _id -> document
  messages,                   \* the messages collection: message _id -> document
  chatPending,                \* bag of chat handlers suspended at an await
  delivered,                  \* bag of chat events emitted, pushes and HTTP responses
  issuedBusy,                 \* call-invite handlers suspended while their caller or
                              \* callee was in a call on another channel
  callerGone,                 \* channels whose call-accept found the caller offline
  socketRefreshTokens,        \* socket id -> refresh token, as a set of pairs
  userDocs,                   \* the users collection: isActive and refreshToken by _id
  handshakes,                 \* socket ids whose handshake derived an identity
  authPending,                \* bag of credential handlers suspended at an await
  authEvents                  \* bag of handshake outcomes and token events emitted

vars == <<activeUsers, sockets, connected, activeCalls, callInviteSentForChannel,
          callRingTimeouts, endedOrRejectedChannels, timers, nextTimer, pending,
          emitted, history, validated, responded, firedFirst, touched, nreq, log,
          chats, messages, chatPending, delivered, issuedBusy, callerGone,
          socketRefreshTokens, userDocs, handshakes, authPending, authEvents>>

\* The state as one record, and its assignment to the next state.
Cur ==
  [activeUsers |-> activeUsers, sockets |-> sockets, connected |-> connected,
   activeCalls |-> activeCalls, callInviteSentForChannel |-> callInviteSentForChannel,
   callRingTimeouts |-> callRingTimeouts, endedOrRejectedChannels |-> endedOrRejectedChannels,
   timers |-> timers, nextTimer |-> nextTimer, pending |-> pending, emitted |-> emitted,
   history |-> history, validated |-> validated, responded |-> responded,
   firedFirst |-> firedFirst, touched |-> touched, nreq |-> nreq, log |-> log,
   chats |-> chats, messages |-> messages, chatPending |-> chatPending,
   delivered |-> delivered, issuedBusy |-> issuedBusy, callerGone |-> callerGone,
   socketRefreshTokens |-> socketRefreshTokens, userDocs |-> userDocs,
   handshakes |-> handshakes, authPending |-> authPending, authEvents |-> authEvents]

Set(n) ==
  /\ activeUsers' = n.activeUsers
  /\ sockets' = n.sockets
  /\ connected' = n.connected
  /\ activeCalls' = n.activeCalls
  /\ callInviteSentForChannel' = n.callInviteSentForChannel
  /\ callRingTimeouts' = n.callRingTimeouts
  /\ endedOrRejectedChannels' = n.endedOrRejectedChannels
  /\ timers' = n.timers
  /\ nextTimer' = n.nextTimer
  /\ pending' = n.pending
  /\ emitted' = n.emitted
  /\ history' = n.history
  /\ validated' = n.validated
  /\ responded' = n.responded
  /\ firedFirst' = n.firedFirst
  /\ touched' = n.touched
  /\ nreq' = n.nreq
  /\ log' = n.log
  /\ chats' = n.chats
  /\ messages' = n.messages
  /\ chatPending' = n.chatPending
  /\ delivered' = n.delivered
  /\ issuedBusy' = n.issuedBusy
  /\ callerGone' = n.callerGone
  /\ socketRefreshTokens' = n.socketRefreshTokens
  /\ userDocs' = n.userDocs
  /\ handshakes' = n.handshakes
  /\ authPending' = n.authPending
  /\ authEvents' = n.authEvents

InitState ==
  [activeUsers |-> [u \in Users |-> NoConn], sockets |-> {}, connected |-> {},
   activeCalls |-> [ch \in Channels |-> NoCall], callInviteSentForChannel |-> {},
   callRingTimeouts |-> [ch \in Channels |-> NoTimer], endedOrRejectedChannels |-> {},
   timers |-> {}, nextTimer |-> 1, pending |-> EmptyBag, emitted |-> EmptyBag,
   history |-> EmptyBag, validated |-> {}, responded |-> {}, firedFirst |-> {},
   touched |-> {}, nreq |-> 0, log |-> EmptyBag,
   chats |-> <<>>, messages |-> <<>>, chatPending |-> EmptyBag, delivered |-> EmptyBag,
   issuedBusy |-> {}, callerGone |-> {},
   socketRefreshTokens |-> {},
   userDocs |-> [id \in Users \cup {"u0"} |->
                   [isActive |-> UserFindById(id).isActive,
                    refreshToken |-> RefreshToken(id, 1)]],
   handshakes |-> {}, authPending |-> EmptyBag, authEvents |-> EmptyBag]

\* ------------------------------------------------------------ helpers
\* An emitted event: its name, the socket it is emitted to (NoConn for a push,
\* whose device is that of data.calleeId), the payload, and the handler emitting it.
NoData == [callerId |-> "", calleeId |-> "", offer |-> NoOffer, message |-> ""]
Msg(m) == [NoData EXCEPT !.message = m]
Ev(type, to, ch, data, src) ==
  [type |-> type, to |-> to, channelId |-> ch, data |-> data, src |-> src]

\* socket.emit / io.to(id).emit / a push dispatch
Emit(s, e) == [s EXCEPT !.emitted = @ (+) SetToBag({e})]

\* io.to(activeUsers.get(userId)).emit when the registry holds an entry
EmitToUser(s, userId, type, ch, data, src) ==
  IF userId \in Users /\ s.activeUsers[userId] # NoConn
  THEN Emit(s, Ev(type, s.activeUsers[userId], ch, data, src))
  ELSE s

Suspend(s, h) == [s EXCEPT !.pending = @ (+) SetToBag({h})]
Resume(s, h) == [s EXCEPT !.pending = @ (-) SetToBag({h})]
Received(s) == [s EXCEPT !.nreq = @ + 1]
Logged(s, keep, r) == IF keep THEN [s EXCEPT !.log = @ (+) SetToBag({r})] ELSE s
Touched(s, ch) == [s EXCEPT !.touched = @ \cup ({ch} \cap Channels)]

\* clearTimeout(callRingTimeouts.get(ch).timeoutId); callRingTimeouts.delete(ch)
ClearRingTimeout(s, ch) ==
  IF s.callRingTimeouts[ch] # NoTimer
  THEN [s EXCEPT !.timers = {t \in @ : t.timeoutId # s.callRingTimeouts[ch]},
                 !.callRingTimeouts[ch] = NoTimer]
  ELSE s

\* The set replaced by the channel instead of growing by it.
MarkEndedOnly(s, ch) ==
  [s EXCEPT !.endedOrRejectedChannels = {ch},
            !.callInviteSentForChannel = @ \ {ch},
            !.activeCalls[ch] = NoCall]

\* endedOrRejectedChannels.add; callInviteSentForChannel.delete; activeCalls.delete
MarkEnded(s, ch) ==
  [s EXCEPT !.endedOrRejectedChannels = @ \cup {ch},
            !.callInviteSentForChannel = @ \ {ch},
            !.activeCalls[ch] = NoCall]

CallHistoryCreate(s, doc) == [s EXCEPT !.history = @ (+) SetToBag({doc})]

\* ------------------------------------------------------------ presence
\* io.on('connection'): an admitted socket of identity u
UserId(c) == c[1]                    \* socket.userId

\* activeUsers.set(socket.userId.toString(), socket.id) (line 88)
ConnectionF(s, id) ==
  [s EXCEPT !.sockets = @ \cup {id},
            !.connected = @ \cup {id},
            !.activeUsers[UserId(id)] = id]

ConnectF(s, u) ==
  ConnectionF(s, <<u, Cardinality({c \in s.sockets : UserId(c) = u}) + 1>>)

Connect(u) ==
  /\ UserFindById(u).isActive
  /\ Set(ConnectF(Cur, u))

\* socket.on('disconnect')
RECURSIVE EndCallsOf(_, _, _)
EndCallsOf(s, u, chs) ==
  IF chs = {} THEN s
  ELSE LET ch == CHOOSE c \in chs : TRUE
           call == s.activeCalls[ch]
           otherUserId == IF call.callerId = u THEN call.calleeId ELSE call.callerId
           s1 == EmitToUser(s, otherUserId, "call-ended", ch, NoData, "disconnect")
           s2 == MarkEnded(ClearRingTimeout(s1, ch), ch)
       IN EndCallsOf(s2, u, chs \ {ch})

\* The disconnect handler without its loop over the calls.
DisconnectKeepCalls(s, c) ==
  [s EXCEPT !.connected = @ \ {c}, !.activeUsers[UserId(c)] = NoConn,
            !.socketRefreshTokens = {p \in @ : p[1] # c}, !.touched = Channels]

\* The disconnect handler without activeUsers.delete.
DisconnectKeepEntry(s, c) ==
  LET u == UserId(c)
      s1 == [s EXCEPT !.connected = @ \ {c},
                      !.socketRefreshTokens = {p \in @ : p[1] # c}, !.touched = Channels]
  IN EndCallsOf(s1, u, {ch \in Channels : s.activeCalls[ch] # NoCall
                          /\ (s.activeCalls[ch].callerId = u \/ s.activeCalls[ch].calleeId = u)})

DisconnectF(s, c) ==
  LET u == UserId(c)
      s1 == [s EXCEPT !.connected = @ \ {c}, !.activeUsers[u] = NoConn,
                      !.socketRefreshTokens = {p \in @ : p[1] # c},
                      !.touched = Channels]
  IN EndCallsOf(s1, u, {ch \in Channels : s.activeCalls[ch] # NoCall
                          /\ (s.activeCalls[ch].callerId = u \/ s.activeCalls[ch].calleeId = u)})

Disconnect(c) ==
  /\ c \in connected
  /\ Set(DisconnectF(Cur, c))

\* ------------------------------------------------------------ call-invite
\* The busy check with the caller's identity left unchecked.
BusyCalleeOnly(s, myUserIdStr, calleeIdStr) ==
  \E ch \in Channels :
    /\ s.activeCalls[ch] # NoCall
    /\ \/ s.activeCalls[ch].callerId = calleeIdStr
       \/ s.activeCalls[ch].calleeId = calleeIdStr

\* The busy check with the callee's identity left unchecked.
BusyCallerOnly(s, myUserIdStr, calleeIdStr) ==
  \E ch \in Channels :
    /\ s.activeCalls[ch] # NoCall
    /\ \/ s.activeCalls[ch].callerId = myUserIdStr
       \/ s.activeCalls[ch].calleeId = myUserIdStr

\* Whether either user is already in a call (lines 151-162)
Busy(s, myUserIdStr, calleeIdStr) ==
  \E ch \in Channels :
    /\ s.activeCalls[ch] # NoCall
    /\ \/ s.activeCalls[ch].callerId = myUserIdStr
       \/ s.activeCalls[ch].calleeId = myUserIdStr
       \/ s.activeCalls[ch].callerId = calleeIdStr
       \/ s.activeCalls[ch].calleeId = calleeIdStr

\* The ended check left out.
ChannelEndedNever(s, ch) == FALSE

\* endedOrRejectedChannels.has(channelIdStr) (line 113)
ChannelEnded(s, ch) == ch \in s.endedOrRejectedChannels

\* socket.on('call-invite'), up to the callee lookup (lines 103-145)
CallInviteF(s, c, d) ==
  LET myUserIdStr == UserId(c)
      callerIdStr == Trim(d.callerId)
      calleeIdStr == Trim(d.calleeId)
      offerPayload == OfferPayload(d.offer)
  IN
  IF d.channelId = "" \/ d.callerId = "" \/ d.calleeId = ""
  THEN Emit(s, Ev("call-error", c, d.channelId, Msg("required"), "call-invite"))
  ELSE IF ChannelEnded(s, d.channelId)
  THEN Emit(s, Ev("call-ended", c, d.channelId, Msg("already ended"), "call-invite"))
  ELSE IF d.channelId \in s.callInviteSentForChannel
  THEN s
  ELSE IF callerIdStr # myUserIdStr
  THEN Emit(s, Ev("call-error", c, d.channelId, Msg("callerId"), "call-invite"))
  ELSE IF calleeIdStr = myUserIdStr
  THEN Emit(s, Ev("call-error", c, d.channelId, Msg("yourself"), "call-invite"))
  ELSE IF offerPayload = NoOffer
  THEN Emit(s, Ev("call-error", c, d.channelId, Msg("offer"), "call-invite"))
  ELSE Suspend(s, [kind |-> "call-invite", pc |-> "callee", socket |-> c,
                   channelId |-> d.channelId, callerId |-> callerIdStr,
                   calleeId |-> calleeIdStr, offer |-> offerPayload, fcmToken |-> ""])

\* ... from the callee lookup to the caller lookup (lines 145-194);
\* found is FALSE when User.findById throws.
CallInviteCalleeF(s, h, found) ==
  LET s0 == Resume(s, h)
      ch == h.channelId
      callee == UserFindById(h.calleeId)
      myUserIdStr == UserId(h.socket)
      calleeSocketId == IF h.calleeId \in Users THEN s.activeUsers[h.calleeId] ELSE NoConn
      s1 == [s0 EXCEPT !.callInviteSentForChannel = @ \cup {ch}, !.validated = @ \cup {ch}]
      s2 == IF calleeSocketId # NoConn
            THEN Emit([s1 EXCEPT !.activeCalls[ch] =
                          [callerId |-> myUserIdStr, calleeId |-> h.calleeId,
                           acceptedAt |-> FALSE, offer |-> h.offer]],
                      Ev("call-invite", calleeSocketId, ch,
                         [callerId |-> h.callerId, calleeId |-> h.calleeId,
                          offer |-> h.offer, message |-> ""],
                         "call-invite"))
            ELSE Emit(s1, Ev("call-unavailable", h.socket, ch, [Msg("offline") EXCEPT !.calleeId = h.calleeId], "call-invite"))
  IN
  IF ~found
  THEN Emit(s0, Ev("call-error", h.socket, ch, Msg("starting"), "call-invite"))
  ELSE IF callee = Null \/ ~callee.isActive
  THEN Emit(s0, Ev("call-unavailable", h.socket, ch, [Msg("inactive") EXCEPT !.calleeId = h.calleeId], "call-invite"))
  ELSE IF Busy(s0, myUserIdStr, h.calleeId)
  THEN Emit(s0, Ev("call-busy", h.socket, ch, [NoData EXCEPT !.calleeId = h.calleeId], "call-invite"))
  ELSE Suspend(s2, [h EXCEPT !.pc = "caller", !.fcmToken = callee.fcmToken])

\* ... from the caller lookup to the end (lines 194-261)
CallInviteCallerF(s, h, found) ==
  LET s0 == Resume(s, h)
      ch == h.channelId
      s1 == IF h.fcmToken # ""
            THEN Emit(s0, Ev("push-incoming-call", NoConn, ch,
                          [NoData EXCEPT !.callerId = h.callerId, !.calleeId = h.calleeId],
                          "call-invite"))
            ELSE s0
      timeoutId == s.nextTimer
  IN
  IF ~found
  THEN Emit(s0, Ev("call-error", h.socket, ch, Msg("starting"), "call-invite"))
  ELSE [s1 EXCEPT !.timers = @ \cup {[timeoutId |-> timeoutId, channelId |-> ch,
                                       callerId |-> h.callerId, calleeId |-> h.calleeId,
                                       fcmToken |-> h.fcmToken]},
                  !.nextTimer = @ + 1,
                  !.callRingTimeouts[ch] = timeoutId]

\* The ring timeout callback up to the history write (lines 216-233)
RingTimeoutF(s, t) ==
  LET ch == t.channelId
      call == s.activeCalls[ch]
      cid == IF call # NoCall THEN call.callerId ELSE t.callerId
      calleeIdForEnd == IF call # NoCall THEN call.calleeId ELSE t.calleeId
      s1 == [s EXCEPT !.timers = @ \ {t}, !.callRingTimeouts[ch] = NoTimer,
                      !.firedFirst = IF ch \in s.responded THEN @ ELSE @ \cup {ch}]
      s2 == MarkEnded(s1, ch)
      s3 == EmitToUser(s2, cid, "call-ended", ch, NoData, "ring-timeout")
      s4 == EmitToUser(s3, calleeIdForEnd, "call-ended", ch, NoData, "ring-timeout")
      s5 == CallHistoryCreate(s4, [callerId |-> t.callerId, calleeId |-> t.calleeId,
                                   channelId |-> ch, status |-> "missed",
                                   durationSeconds |-> "0"])
  IN Suspend(s5, [kind |-> "ring-timeout", pc |-> "history", socket |-> NoConn,
                  channelId |-> ch, callerId |-> t.callerId, calleeId |-> t.calleeId,
                  offer |-> NoOffer, fcmToken |-> t.fcmToken])

\* ... after the history write: the missed-call push (lines 247-255)
RingTimeoutHistoryF(s, h) ==
  LET s0 == Resume(s, h) IN
  IF h.fcmToken # ""
  THEN Emit(s0, Ev("push-missed-call", NoConn, h.channelId,
                [NoData EXCEPT !.callerId = h.callerId, !.calleeId = h.calleeId],
                "ring-timeout"))
  ELSE s0

\* ------------------------------------------------------------ call-accept
\* The callee check left out.
NotCalleeNever(call, c) == FALSE

\* call.calleeId.toString() !== socket.userId.toString() (line 281)
NotCallee(call, c) == call.calleeId # UserId(c)

\* socket.on('call-accept') (lines 266-307): it holds no await
CallAcceptF(s, c, d) ==
  LET ch == d.channelId
      call == s.activeCalls[ch]
      callerSocketId == IF d.callerId \in Users THEN s.activeUsers[d.callerId] ELSE NoConn
  IN
  IF d.channelId = "" \/ d.callerId = "" \/ d.answer = ""
  THEN Emit(s, Ev("call-error", c, d.channelId, Msg("required"), "call-accept"))
  ELSE IF call = NoCall
  THEN Emit(s, Ev("call-error", c, ch, Msg("not found"), "call-accept"))
  ELSE IF NotCallee(call, c)
  THEN Emit(s, Ev("call-error", c, ch, Msg("only callee"), "call-accept"))
  ELSE IF callerSocketId = NoConn
  THEN [Emit(s, Ev("call-error", c, ch, Msg("caller offline"), "call-accept"))
          EXCEPT !.activeCalls[ch] = NoCall, !.callerGone = @ \cup {ch}]
  ELSE Emit([ClearRingTimeout(s, ch) EXCEPT !.activeCalls[ch].acceptedAt = TRUE,
                                            !.responded = @ \cup {ch}],
            Ev("call-accepted", callerSocketId, ch,
               [NoData EXCEPT !.callerId = d.callerId, !.message = d.answer], "call-accept"))

\* ------------------------------------------------------------ call-reject
\* ... after the history write, or at once when there is no call (lines 362-373)
CallRejectEndF(s, h) ==
  LET ch == h.channelId
      s1 == MarkEnded(s, ch)
      s2 == EmitToUser(s1, h.callerId, "call-rejected", ch, NoData, "call-reject")
  IN Emit(s2, Ev("call-ended", h.socket, ch, NoData, "call-reject"))

CallRejectHistoryF(s, h) ==
  CallRejectEndF([Resume(s, h) EXCEPT !.responded = @ \cup {h.channelId}], h)

\* socket.on('call-reject') up to the history write (lines 328-347)
CallRejectF(s, c, d) ==
  LET ch == d.channelId
      s1 == ClearRingTimeout(s, ch)
      call == s.activeCalls[ch]
      h == [kind |-> "call-reject", pc |-> "history", socket |-> c, channelId |-> ch,
            callerId |-> Trim(d.callerId), calleeId |-> "", offer |-> NoOffer,
            fcmToken |-> ""]
  IN
  IF d.channelId = "" \/ d.callerId = ""
  THEN s
  ELSE IF call # NoCall
  THEN Suspend(CallHistoryCreate(s1, [callerId |-> call.callerId, calleeId |-> call.calleeId,
                                      channelId |-> ch, status |-> "rejected",
                                      durationSeconds |-> "0"]), h)
  ELSE CallRejectEndF(s1, h)

\* ------------------------------------------------------------ call-end
\* socket.on('call-end') up to the history write (lines 377-400)
CallEndF(s, c, d) ==
  LET ch == d.channelId
      call == s.activeCalls[ch]
      otherUserId == IF call.callerId = UserId(c) THEN call.calleeId ELSE call.callerId
      s1 == EmitToUser(s, otherUserId, "call-ended", ch, NoData, "call-end")
      s2 == Emit(s1, Ev("call-ended", c, ch, NoData, "call-end"))
      s3 == CallHistoryCreate(s2, [callerId |-> call.callerId, calleeId |-> call.calleeId,
                                   channelId |-> ch, status |-> "answered",
                                   durationSeconds |->
                                     IF call.acceptedAt THEN "endedAt - acceptedAt" ELSE "0"])
  IN
  IF d.channelId = "" THEN s
  ELSE IF call = NoCall THEN s
  ELSE Suspend(s3, [kind |-> "call-end", pc |-> "history", socket |-> c, channelId |-> ch,
                    callerId |-> "", calleeId |-> "", offer |-> NoOffer, fcmToken |-> ""])

\* ... after the history write (lines 414-421)
CallEndHistoryF(s, h) ==
  [MarkEnded(ClearRingTimeout(Resume(s, h), h.channelId), h.channelId)
     EXCEPT !.responded = @ \cup {h.channelId}]

\* ------------------------------------------------------------ call-request-offer
\* socket.on('call-request-offer') (lines 425-433)
\* The callee check left out.
RequesterNotCalleeNever(call, c) == FALSE

\* call.calleeId.toString() !== socket.userId.toString() (line 431)
RequesterNotCallee(call, c) == call.calleeId # UserId(c)

CallRequestOfferF(s, c, d) ==
  LET call == s.activeCalls[d.channelId] IN
  IF d.channelId = "" THEN s
  ELSE IF call = NoCall \/ call.offer = NoOffer THEN s
  ELSE IF RequesterNotCallee(call, c) THEN s
  ELSE Emit(s, Ev("call-offer", c, d.channelId, [NoData EXCEPT !.offer = call.offer],
                  "call-request-offer"))

\* ------------------------------------------------------------ chat
\* Chat and message _ids are the positions of the documents in their
\* collections; NoId is an absent id.  The awaits of populate read only the
\* users collection and are no cut points.  A query is answered, and a write
\* applied, at the step at which its handler resumes.
NoId == 0
Participants(chat) == {chat.participants[1], chat.participants[2]}

\* Chat.findById(chatId): the chat ids of the result, none when there is none
ChatFindById(s, chatId) == {i \in DOMAIN s.chats : i = chatId}

\* Chat.findOne({ participants: { $all: [a, b] } }): the first chat that matches
ChatFindOne(s, a, b) ==
  LET found == {i \in DOMAIN s.chats : {a, b} \subseteq Participants(s.chats[i])} IN
  IF found = {} THEN {} ELSE {CHOOSE i \in found : \A j \in found : i <= j}

\* Chat.create({ participants: [a, b] })
ChatCreate(s, a, b) ==
  [s EXCEPT !.chats = Append(@, [participants |-> <<a, b>>, lastMessage |-> NoId])]

\* Message.findOne({ _id, chatId, receiverId })
MessageFindOne(s, messageId, chatId, receiverId) ==
  {i \in DOMAIN s.messages : /\ i = messageId
                             /\ s.messages[i].chatId = chatId
                             /\ s.messages[i].receiverId = receiverId}

\* A chat event: its name, the socket it is emitted to (NoConn for a push, a
\* room broadcast or an HTTP response), the identity addressed, the ids and the text.
ChatEv(type, to, userId, chatId, messageId, text) ==
  [type |-> type, to |-> to, userId |-> userId, chatId |-> chatId,
   messageId |-> messageId, text |-> text]
Deliver(s, e) == [s EXCEPT !.delivered = @ (+) SetToBag({e})]
ChatError(s, h, text) ==
  Deliver(s, ChatEv("error", h.socket, h.userId, h.chatId, h.messageId, text))
SuspendChat(s, h) == [s EXCEPT !.chatPending = @ (+) SetToBag({h})]
ResumeChat(s, h) == [s EXCEPT !.chatPending = @ (-) SetToBag({h})]

\* socket.on('send-message') up to the receiver lookup (lines 545-558)
SendMessageF(s, c, d) ==
  LET h == [kind |-> "send-message", pc |-> "receiver", socket |-> c, userId |-> UserId(c),
            chatId |-> d.chatId, receiverId |-> d.receiverId, messageId |-> NoId,
            chat |-> NoId, fcmToken |-> ""]
  IN
  IF d.receiverId = "" \/ d.message = ""
  THEN ChatError(s, h, "required")
  ELSE SuspendChat(s, h)

\* ... from the receiver lookup to the chat lookup (lines 558-574);
\* ok is FALSE when the awaited call throws (lines 713-716).
SendMessageReceiverF(s, h, ok) ==
  LET s0 == ResumeChat(s, h) IN
  IF ~ok THEN ChatError(s0, h, "Error sending message")
  ELSE IF UserFindById(h.receiverId) = Null THEN ChatError(s0, h, "Receiver not found")
  ELSE IF h.userId = h.receiverId THEN ChatError(s0, h, "yourself")
  ELSE SuspendChat(s0, [h EXCEPT !.pc = "chat"])

\* ... from the chat lookup to Chat.create or Message.create (lines 574-615)
SendMessageChatF(s, h, ok) ==
  LET s0 == ResumeChat(s, h)
      byId == ChatFindById(s, h.chatId)
      byPair == ChatFindOne(s, h.userId, h.receiverId)
  IN
  IF ~ok THEN ChatError(s0, h, "Error sending message")
  ELSE IF h.chatId # NoId
  THEN IF byId = {} THEN ChatError(s0, h, "Chat not found")
       ELSE IF h.userId \notin Participants(s.chats[h.chatId])
       THEN ChatError(s0, h, "Access denied")
       ELSE IF h.receiverId \notin Participants(s.chats[h.chatId])
       THEN ChatError(s0, h, "Receiver is not a participant")
       ELSE SuspendChat(s0, [h EXCEPT !.pc = "message", !.chat = h.chatId])
  ELSE IF byPair = {}
  THEN SuspendChat(s0, [h EXCEPT !.pc = "create"])
  ELSE SuspendChat(s0, [h EXCEPT !.pc = "message", !.chat = CHOOSE i \in byPair : TRUE])

\* ... from Chat.create to Message.create (lines 599-615)
SendMessageCreateF(s, h, ok) ==
  LET s0 == ResumeChat(s, h)
      s1 == ChatCreate(s0, h.userId, h.receiverId)
  IN
  IF ~ok THEN ChatError(s0, h, "Error sending message")
  ELSE SuspendChat(s1, [h EXCEPT !.pc = "message", !.chat = Len(s1.chats)])

\* ... from Message.create to chat.save (lines 615-631)
SendMessageMessageF(s, h, ok) ==
  LET s0 == ResumeChat(s, h)
      s1 == [s0 EXCEPT !.messages = Append(@, [chatId |-> h.chat, senderId |-> h.userId,
                                                receiverId |-> h.receiverId,
                                                isRead |-> FALSE])]
  IN
  IF ~ok THEN ChatError(s0, h, "Error sending message")
  ELSE SuspendChat(s1, [h EXCEPT !.pc = "save", !.messageId = Len(s1.messages)])

\* ... from chat.save to the token lookup (lines 631-643)
SendMessageSaveF(s, h, ok) ==
  LET s0 == ResumeChat(s, h)
      s1 == [s0 EXCEPT !.chats[h.chat].lastMessage = h.messageId]
      receiverSocketId == IF h.receiverId \in Users THEN s.activeUsers[h.receiverId]
                          ELSE NoConn
      s2 == IF receiverSocketId # NoConn
            THEN Deliver(s1, ChatEv("new-message", receiverSocketId, h.receiverId,
                                    h.chat, h.messageId, ""))
            ELSE s1
  IN
  IF ~ok THEN ChatError(s0, h, "Error sending message")
  ELSE SuspendChat(s2, [h EXCEPT !.pc = "token"])

\* message-sent to the sender and message-received to the chat room (lines 686-712)
SendMessageEndF(s, h) ==
  Deliver(Deliver(s, ChatEv("message-sent", h.socket, h.userId, h.chat, h.messageId,
                            IF h.chatId = NoId THEN "chatCreated" ELSE "")),
          ChatEv("message-received", NoConn, "", h.chat, h.messageId, ""))

\* ... from the token lookup to the push or to the end (lines 643-654)
SendMessageTokenF(s, h, ok) ==
  LET s0 == ResumeChat(s, h)
      receiverUser == UserFindById(h.receiverId)
  IN
  IF ~ok THEN ChatError(s0, h, "Error sending message")
  ELSE IF receiverUser.fcmToken # ""
  THEN SuspendChat(Deliver(s0, ChatEv("push-message", NoConn, h.receiverId, h.chat,
                                      h.messageId, "")),
                   [h EXCEPT !.pc = "push"])
  ELSE SendMessageEndF(s0, h)

\* ... after the push, sent or not (lines 654-712)
SendMessagePushF(s, h) == SendMessageEndF(ResumeChat(s, h), h)

\* socket.on('mark-read') up to the chat lookup (lines 720-730)
MarkReadF(s, c, d) ==
  LET h == [kind |-> "mark-read", pc |-> "chat", socket |-> c, userId |-> UserId(c),
            chatId |-> d.chatId, receiverId |-> "", messageId |-> d.messageId,
            chat |-> NoId, fcmToken |-> ""]
  IN
  IF d.chatId = NoId \/ d.messageId = NoId
  THEN ChatError(s, h, "required")
  ELSE SuspendChat(s, h)

\* ... from the chat lookup to the message lookup (lines 730-737)
MarkReadChatF(s, h, ok) ==
  LET s0 == ResumeChat(s, h) IN
  IF ~ok THEN ChatError(s0, h, "Error marking message as read")
  ELSE IF ChatFindById(s, h.chatId) = {} \/ h.userId \notin Participants(s.chats[h.chatId])
  THEN ChatError(s0, h, "Access denied")
  ELSE SuspendChat(s0, [h EXCEPT !.pc = "message"])

\* ... from the message lookup to message.save (lines 737-745)
MarkReadMessageF(s, h, ok) ==
  LET s0 == ResumeChat(s, h)
      message == MessageFindOne(s, h.messageId, h.chatId, h.userId)
  IN
  IF ~ok THEN ChatError(s0, h, "Error marking message as read")
  ELSE IF message # {} /\ ~s.messages[h.messageId].isRead
  THEN SuspendChat(s0, [h EXCEPT !.pc = "save"])
  ELSE s0

\* ... after message.save (lines 745-755)
MarkReadSaveF(s, h, ok) ==
  LET s0 == ResumeChat(s, h)
      s1 == [s0 EXCEPT !.messages[h.messageId].isRead = TRUE]
      senderSocketId == s.activeUsers[s.messages[h.messageId].senderId]
  IN
  IF ~ok THEN ChatError(s0, h, "Error marking message as read")
  ELSE IF senderSocketId # NoConn
  THEN Deliver(s1, ChatEv("message-read", senderSocketId, s.messages[h.messageId].senderId,
                          h.chatId, h.messageId, ""))
  ELSE s1

\* router.post('/create') of src/routes/call.js up to the receiver lookup
\* (lines 188-209); u is req.userId
CreateChatF(s, u, d) ==
  LET h == [kind |-> "create", pc |-> "receiver", socket |-> NoConn, userId |-> u,
            chatId |-> NoId, receiverId |-> d.receiverId, messageId |-> NoId,
            chat |-> NoId, fcmToken |-> ""]
  IN
  IF d.receiverId = ""
  THEN Deliver(s, ChatEv("400", NoConn, u, NoId, NoId, "Receiver ID is required"))
  ELSE IF u = d.receiverId
  THEN Deliver(s, ChatEv("400", NoConn, u, NoId, NoId, "yourself"))
  ELSE SuspendChat(s, h)

CreateChatError(s, h) ==
  Deliver(s, ChatEv("500", NoConn, h.userId, NoId, NoId, "Error creating chat"))

\* ... from the receiver lookup to the chat lookup (lines 209-218)
CreateChatReceiverF(s, h, ok) ==
  LET s0 == ResumeChat(s, h) IN
  IF ~ok THEN CreateChatError(s0, h)
  ELSE IF UserFindById(h.receiverId) = Null
  THEN Deliver(s0, ChatEv("404", NoConn, h.userId, NoId, NoId, "Receiver not found"))
  ELSE SuspendChat(s0, [h EXCEPT !.pc = "chat"])

\* ... from the chat lookup to Chat.create or to the response (lines 218-239)
CreateChatChatF(s, h, ok) ==
  LET s0 == ResumeChat(s, h)
      byPair == ChatFindOne(s, h.userId, h.receiverId)
  IN
  IF ~ok THEN CreateChatError(s0, h)
  ELSE IF byPair = {}
  THEN SuspendChat(s0, [h EXCEPT !.pc = "create"])
  ELSE Deliver(s0, ChatEv("200", NoConn, h.userId, CHOOSE i \in byPair : TRUE, NoId, ""))

\* ... from Chat.create to the reload of the chat (lines 224-228)
CreateChatCreateF(s, h, ok) ==
  LET s0 == ResumeChat(s, h)
      s1 == ChatCreate(s0, h.userId, h.receiverId)
  IN
  IF ~ok THEN CreateChatError(s0, h)
  ELSE SuspendChat(s1, [h EXCEPT !.pc = "reload", !.chat = Len(s1.chats)])

\* ... from the reload to the response (lines 228-239)
CreateChatReloadF(s, h, ok) ==
  LET s0 == ResumeChat(s, h) IN
  IF ~ok THEN CreateChatError(s0, h)
  ELSE Deliver(s0, ChatEv("200", NoConn, h.userId, h.chat, NoId, ""))

\* ------------------------------------------------------------ actions
\* The well-formed payloads clients send, over the identities `ids` and the
\* channels `chs`.
Offer == [type |-> "offer", sdp |-> "v=0"]
InvitePayloads(ids, chs) == [channelId : chs, callerId : ids, calleeId : ids, offer : {Offer}]
AcceptPayloads(ids, chs) == [channelId : chs, callerId : ids, answer : {"answer"}]
RejectPayloads(ids, chs) == [channelId : chs, callerId : ids]
ChannelPayloads(chs) == [channelId : chs]

\* ------------------------------------------------------------ one at a time
\* A client event as the log keeps it, and the handler it starts.
Request(kind, c, d) ==
  [kind |-> kind, socket |-> c, channelId |-> d.channelId,
   callerId |-> IF kind \in {"call-invite", "call-accept", "call-reject"}
                THEN d.callerId ELSE "",
   calleeId |-> IF kind = "call-invite" THEN d.calleeId ELSE ""]

StartF(s, r) ==
  CASE r.kind = "call-invite" ->
         CallInviteF(s, r.socket, [channelId |-> r.channelId, callerId |-> r.callerId,
                                   calleeId |-> r.calleeId, offer |-> Offer])
    [] r.kind = "call-accept" ->
         CallAcceptF(s, r.socket, [channelId |-> r.channelId, callerId |-> r.callerId,
                                   answer |-> "answer"])
    [] r.kind = "call-reject" ->
         CallRejectF(s, r.socket, [channelId |-> r.channelId, callerId |-> r.callerId])
    [] r.kind = "call-end" -> CallEndF(s, r.socket, [channelId |-> r.channelId])

\* The continuation of suspended handler h, every lookup succeeding
ContinueF(s, h) ==
  CASE h.kind = "call-invite" /\ h.pc = "callee" -> CallInviteCalleeF(s, h, TRUE)
    [] h.kind = "call-invite" /\ h.pc = "caller" -> CallInviteCallerF(s, h, TRUE)
    [] h.kind = "ring-timeout" -> RingTimeoutHistoryF(s, h)
    [] h.kind = "call-reject" -> CallRejectHistoryF(s, h)
    [] h.kind = "call-end" -> CallEndHistoryF(s, h)

\* A handler run to its end with nothing in between
RECURSIVE Finish(_)
Finish(s) ==
  IF s.pending = EmptyBag THEN s
  ELSE Finish(ContinueF(s, CHOOSE h \in BagToSet(s.pending) : TRUE))

\* The states s can be in after some of its ring timers fired, one at a time
RECURSIVE AfterTimers(_)
AfterTimers(s) ==
  {s} \cup UNION {AfterTimers(Finish(RingTimeoutF(s, t))) : t \in s.timers}

\* The states reached from s by running the handlers of the client events
\* `reqs` one at a time in some order, ring timers firing between them
RECURSIVE SerialOutcomes(_, _)
SerialOutcomes(s, reqs) ==
  IF reqs = EmptyBag THEN AfterTimers(s)
  ELSE UNION {SerialOutcomes(Finish(StartF(s1, r)), reqs (-) SetToBag({r})) :
                r \in BagToSet(reqs), s1 \in AfterTimers(s)}

\* What C2 compares: the call table, the dedup sets, the channels of the
\* ring-timer table, the events and the history
Observable(s) ==
  [activeCalls |-> s.activeCalls,
   callInviteSentForChannel |-> s.callInviteSentForChannel,
   endedOrRejectedChannels |-> s.endedOrRejectedChannels,
   callRingTimeouts |-> {ch \in Channels : s.callRingTimeouts[ch] # NoTimer},
   emitted |-> s.emitted, history |-> s.history]

\* Where SpecSerial starts: u1 and u2 each hold an open socket
SerialStart == ConnectF(ConnectF(InitState, "u1"), "u2")

Handlers(kind, pc) == {h \in BagToSet(pending) : h.kind = kind /\ h.pc = pc}

\* The channels other than ch on which u is caller or callee of a call
CallsElsewhere(s, u, ch) ==
  {x \in Channels \ {ch} : /\ s.activeCalls[x] # NoCall
                           /\ u \in {s.activeCalls[x].callerId, s.activeCalls[x].calleeId}}

\* n is the state a call-invite on socket c leaves s in: its handler, when
\* suspended, is noted if caller or callee was in a call on another channel.
IssuedBusy(s, n, c, d) ==
  IF CallsElsewhere(s, UserId(c), d.channelId) \cup
     CallsElsewhere(s, Trim(d.calleeId), d.channelId) # {}
  THEN [n EXCEPT !.issuedBusy = @ \cup BagToSet(n.pending (-) s.pending)]
  ELSE n

CallInvite(c, d, keep) ==
  /\ c \in connected
  /\ Set(IssuedBusy(Cur, Logged(Received(CallInviteF(Cur, c, d)), keep,
                                 Request("call-invite", c, d)), c, d))

CallInviteCallee(h, found) ==
  /\ h \in Handlers("call-invite", "callee")
  /\ Set(CallInviteCalleeF(Cur, h, found))

CallInviteCaller(h, found) ==
  /\ h \in Handlers("call-invite", "caller")
  /\ Set(CallInviteCallerF(Cur, h, found))

RingTimeout(t) ==
  /\ t \in timers
  /\ Set(RingTimeoutF(Cur, t))

RingTimeoutHistory(h) ==
  /\ h \in Handlers("ring-timeout", "history")
  /\ Set(RingTimeoutHistoryF(Cur, h))

CallAccept(c, d, keep) ==
  /\ c \in connected
  /\ Set(Logged(Touched(Received(CallAcceptF(Cur, c, d)), d.channelId),
                keep, Request("call-accept", c, d)))

CallReject(c, d, keep) ==
  /\ c \in connected
  /\ Set(Logged(Touched(Received(CallRejectF(Cur, c, d)), d.channelId),
                keep, Request("call-reject", c, d)))

CallRejectHistory(h) ==
  /\ h \in Handlers("call-reject", "history")
  /\ Set(CallRejectHistoryF(Cur, h))

CallEnd(c, d, keep) ==
  /\ c \in connected
  /\ Set(Logged(Touched(Received(CallEndF(Cur, c, d)), d.channelId),
                keep, Request("call-end", c, d)))

CallEndHistory(h) ==
  /\ h \in Handlers("call-end", "history")
  /\ Set(CallEndHistoryF(Cur, h))

CallRequestOffer(c, d) ==
  /\ c \in connected
  /\ Set(Received(CallRequestOfferF(Cur, c, d)))

Init ==
  /\ activeUsers = InitState.activeUsers
  /\ sockets = InitState.sockets
  /\ connected = InitState.connected
  /\ activeCalls = InitState.activeCalls
  /\ callInviteSentForChannel = InitState.callInviteSentForChannel
  /\ callRingTimeouts = InitState.callRingTimeouts
  /\ endedOrRejectedChannels = InitState.endedOrRejectedChannels
  /\ timers = InitState.timers
  /\ nextTimer = InitState.nextTimer
  /\ pending = InitState.pending
  /\ emitted = InitState.emitted
  /\ history = InitState.history
  /\ validated = InitState.validated
  /\ responded = InitState.responded
  /\ firedFirst = InitState.firedFirst
  /\ touched = InitState.touched
  /\ nreq = InitState.nreq
  /\ log = InitState.log
  /\ chats = InitState.chats
  /\ messages = InitState.messages
  /\ chatPending = InitState.chatPending
  /\ delivered = InitState.delivered
  /\ issuedBusy = InitState.issuedBusy
  /\ callerGone = InitState.callerGone
  /\ socketRefreshTokens = InitState.socketRefreshTokens
  /\ userDocs = InitState.userDocs
  /\ handshakes = InitState.handshakes
  /\ authPending = InitState.authPending
  /\ authEvents = InitState.authEvents

\* Every event a client can send on an open socket, while fewer than `limit`
\* client events were received.
ClientEvent(ids, chs, limit) ==
  \/ \E c \in connected, d \in InvitePayloads(ids, chs) :
       nreq < limit /\ CallInvite(c, d, FALSE)
  \/ \E c \in connected, d \in AcceptPayloads(ids, chs) :
       nreq < limit /\ CallAccept(c, d, FALSE)
  \/ \E c \in connected, d \in RejectPayloads(ids, chs) :
       nreq < limit /\ CallReject(c, d, FALSE)
  \/ \E c \in connected, d \in ChannelPayloads(chs) :
       nreq < limit /\ CallEnd(c, d, FALSE)
  \/ \E c \in connected, d \in ChannelPayloads(chs) :
       nreq < limit /\ CallRequestOffer(c, d)

\* The events of the call state machine, each kept in the log.
LoggedEvent(ids, chs, limit) ==
  \/ \E c \in connected, d \in InvitePayloads(ids, chs) :
       nreq < limit /\ CallInvite(c, d, TRUE)
  \/ \E c \in connected, d \in AcceptPayloads(ids, chs) :
       nreq < limit /\ CallAccept(c, d, TRUE)
  \/ \E c \in connected, d \in RejectPayloads(ids, chs) :
       nreq < limit /\ CallReject(c, d, TRUE)
  \/ \E c \in connected, d \in ChannelPayloads(chs) :
       nreq < limit /\ CallEnd(c, d, TRUE)

\* The continuation of a suspended handler, and the ring timers; `lookups`
\* holds the outcomes of User.findById (FALSE: it throws).
Continue(lookups) ==
  \/ \E h \in BagToSet(pending), found \in lookups : CallInviteCallee(h, found)
  \/ \E h \in BagToSet(pending), found \in lookups : CallInviteCaller(h, found)
  \/ \E t \in timers : RingTimeout(t)
  \/ \E h \in BagToSet(pending) : RingTimeoutHistory(h)
  \/ \E h \in BagToSet(pending) : CallRejectHistory(h)
  \/ \E h \in BagToSet(pending) : CallEndHistory(h)

\* Sockets opening and closing, at most `limit` sockets per identity.
Presence(ids, limit) ==
  \/ \E u \in ids : Cardinality({c \in sockets : UserId(c) = u}) < limit /\ Connect(u)
  \/ \E c \in connected : Disconnect(c)

\* The signaling engine over all identities and channels.
Next ==
  \/ Presence(Users, MaxSockets)
  \/ ClientEvent(Users, Channels, MaxRequests)
  \/ Continue(BOOLEAN)

Spec == Init /\ [][Next]_vars

\* One call between two identities on one channel, more events deep.
NextChannel ==
  \/ Presence({"u1", "u2"}, MaxSockets)
  \/ ClientEvent({"u1", "u2"}, {"x"}, MaxChannelRequests)
  \/ Continue(BOOLEAN)

SpecChannel == Init /\ [][NextChannel]_vars

\* The call state machine of one channel between two connected identities,
\* every lookup succeeding, with the log of the events received.
InitSerial ==
  /\ activeUsers = SerialStart.activeUsers
  /\ sockets = SerialStart.sockets
  /\ connected = SerialStart.connected
  /\ activeCalls = SerialStart.activeCalls
  /\ callInviteSentForChannel = SerialStart.callInviteSentForChannel
  /\ callRingTimeouts = SerialStart.callRingTimeouts
  /\ endedOrRejectedChannels = SerialStart.endedOrRejectedChannels
  /\ timers = SerialStart.timers
  /\ nextTimer = SerialStart.nextTimer
  /\ pending = SerialStart.pending
  /\ emitted = SerialStart.emitted
  /\ history = SerialStart.history
  /\ validated = SerialStart.validated
  /\ responded = SerialStart.responded
  /\ firedFirst = SerialStart.firedFirst
  /\ touched = SerialStart.touched
  /\ nreq = SerialStart.nreq
  /\ log = SerialStart.log
  /\ chats = SerialStart.chats
  /\ messages = SerialStart.messages
  /\ chatPending = SerialStart.chatPending
  /\ delivered = SerialStart.delivered
  /\ issuedBusy = SerialStart.issuedBusy
  /\ callerGone = SerialStart.callerGone
  /\ socketRefreshTokens = SerialStart.socketRefreshTokens
  /\ userDocs = SerialStart.userDocs
  /\ handshakes = SerialStart.handshakes
  /\ authPending = SerialStart.authPending
  /\ authEvents = SerialStart.authEvents

NextSerial ==
  \/ LoggedEvent({"u1", "u2"}, {"x"}, MaxSerialRequests)
  \/ Continue({TRUE})

SpecSerial == InitSerial /\ [][NextSerial]_vars

\* ------------------------------------------------------------ chat actions
ChatIds == {1}
MessageIds == {1}
SendPayloads(ids) == [chatId : {NoId} \cup ChatIds, receiverId : ids, message : {"hi"}]
MarkReadPayloads == [chatId : ChatIds, messageId : MessageIds]
CreatePayloads(ids) == [receiverId : ids]

ChatHandlers(kind, pc) == {h \in BagToSet(chatPending) : h.kind = kind /\ h.pc = pc}

SendMessage(c, d) ==
  /\ c \in connected
  /\ Set(Received(SendMessageF(Cur, c, d)))

SendMessageReceiver(h, ok) ==
  /\ h \in ChatHandlers("send-message", "receiver")
  /\ Set(SendMessageReceiverF(Cur, h, ok))

SendMessageChat(h, ok) ==
  /\ h \in ChatHandlers("send-message", "chat")
  /\ Set(SendMessageChatF(Cur, h, ok))

SendMessageCreate(h, ok) ==
  /\ h \in ChatHandlers("send-message", "create")
  /\ Set(SendMessageCreateF(Cur, h, ok))

SendMessageMessage(h, ok) ==
  /\ h \in ChatHandlers("send-message", "message")
  /\ Set(SendMessageMessageF(Cur, h, ok))

SendMessageSave(h, ok) ==
  /\ h \in ChatHandlers("send-message", "save")
  /\ Set(SendMessageSaveF(Cur, h, ok))

SendMessageToken(h, ok) ==
  /\ h \in ChatHandlers("send-message", "token")
  /\ Set(SendMessageTokenF(Cur, h, ok))

SendMessagePush(h) ==
  /\ h \in ChatHandlers("send-message", "push")
  /\ Set(SendMessagePushF(Cur, h))

MarkRead(c, d) ==
  /\ c \in connected
  /\ Set(Received(MarkReadF(Cur, c, d)))

MarkReadChat(h, ok) ==
  /\ h \in ChatHandlers("mark-read", "chat")
  /\ Set(MarkReadChatF(Cur, h, ok))

MarkReadMessage(h, ok) ==
  /\ h \in ChatHandlers("mark-read", "message")
  /\ Set(MarkReadMessageF(Cur, h, ok))

MarkReadSave(h, ok) ==
  /\ h \in ChatHandlers("mark-read", "save")
  /\ Set(MarkReadSaveF(Cur, h, ok))

CreateChat(u, d) ==
  /\ UserFindById(u).isActive
  /\ Set(Received(CreateChatF(Cur, u, d)))

CreateChatReceiver(h, ok) ==
  /\ h \in ChatHandlers("create", "receiver")
  /\ Set(CreateChatReceiverF(Cur, h, ok))

CreateChatChat(h, ok) ==
  /\ h \in ChatHandlers("create", "chat")
  /\ Set(CreateChatChatF(Cur, h, ok))

CreateChatCreate(h, ok) ==
  /\ h \in ChatHandlers("create", "create")
  /\ Set(CreateChatCreateF(Cur, h, ok))

CreateChatReload(h, ok) ==
  /\ h \in ChatHandlers("create", "reload")
  /\ Set(CreateChatReloadF(Cur, h, ok))

\* Every chat request a client can make, while fewer than `limit` were received.
ChatEvent(ids, limit) ==
  \/ \E c \in connected, d \in SendPayloads(ids) : nreq < limit /\ SendMessage(c, d)
  \/ \E c \in connected, d \in MarkReadPayloads : nreq < limit /\ MarkRead(c, d)
  \/ \E u \in ids, d \in CreatePayloads(ids) : nreq < limit /\ CreateChat(u, d)

\* The continuation of a suspended chat handler; `oks` holds the outcomes of
\* the awaited call (FALSE: it throws).
ChatContinue(oks) ==
  \/ \E h \in BagToSet(chatPending), ok \in oks : SendMessageReceiver(h, ok)
  \/ \E h \in BagToSet(chatPending), ok \in oks : SendMessageChat(h, ok)
  \/ \E h \in BagToSet(chatPending), ok \in oks : SendMessageCreate(h, ok)
  \/ \E h \in BagToSet(chatPending), ok \in oks : SendMessageMessage(h, ok)
  \/ \E h \in BagToSet(chatPending), ok \in oks : SendMessageSave(h, ok)
  \/ \E h \in BagToSet(chatPending), ok \in oks : SendMessageToken(h, ok)
  \/ \E h \in BagToSet(chatPending) : SendMessagePush(h)
  \/ \E h \in BagToSet(chatPending), ok \in oks : MarkReadChat(h, ok)
  \/ \E h \in BagToSet(chatPending), ok \in oks : MarkReadMessage(h, ok)
  \/ \E h \in BagToSet(chatPending), ok \in oks : MarkReadSave(h, ok)
  \/ \E h \in BagToSet(chatPending), ok \in oks : CreateChatReceiver(h, ok)
  \/ \E h \in BagToSet(chatPending), ok \in oks : CreateChatChat(h, ok)
  \/ \E h \in BagToSet(chatPending), ok \in oks : CreateChatCreate(h, ok)
  \/ \E h \in BagToSet(chatPending), ok \in oks : CreateChatReload(h, ok)

\* Messaging between two identities, every awaited call succeeding.
NextChat ==
  \/ Presence({"u1", "u2"}, MaxSockets)
  \/ ChatEvent({"u1", "u2"}, MaxChatRequests)
  \/ ChatContinue({TRUE})

SpecChat == Init /\ [][NextChat]_vars

\* The presence registry alone, an identity opening more than one socket.
NextPresence == Presence(Users, MaxPresenceSockets)

SpecPresence == Init /\ [][NextPresence]_vars

\* ------------------------------------------------------------ observations
\* How many of the events of bag b satisfy P
CountWhere(b, P(_)) == BagCardinality([e \in {x \in DOMAIN b : P(x)} |-> b[e]])

Relays(ch) ==
  LET P(e) == e.type = "call-invite" /\ e.channelId = ch IN CountWhere(emitted, P)
IncomingCallPushes(ch) ==
  LET P(e) == e.type = "push-incoming-call" /\ e.channelId = ch IN CountWhere(emitted, P)
MissedCallPushes(ch) ==
  LET P(e) == e.type = "push-missed-call" /\ e.channelId = ch IN CountWhere(emitted, P)
TimeoutCallEnded(ch) ==
  LET P(e) == e.type = "call-ended" /\ e.channelId = ch /\ e.src = "ring-timeout"
  IN CountWhere(emitted, P)
HistoryRecords(ch) ==
  LET P(r) == r.channelId = ch IN CountWhere(history, P)
MissedRecords(ch) ==
  LET P(r) == r.channelId = ch /\ r.status = "missed" /\ r.durationSeconds = "0"
  IN CountWhere(history, P)
InFlight(u) ==
  {ch \in Channels : activeCalls[ch] # NoCall
                     /\ (activeCalls[ch].callerId = u \/ activeCalls[ch].calleeId = u)}

\* ------------------------------------------------------------ claims
\* C1: for every channel identifier, at most one call-invite is ever relayed and
\* at most one incoming-call push is ever dispatched, however many call-invite
\* events carry that identifier and however their handling overlaps.
C1_OneInvitePerChannel ==
  \A ch \in Channels : Relays(ch) <= 1 /\ IncomingCallPushes(ch) <= 1

\* C3: once an accept, a reject or an end of a channel was processed before its
\* ring timer fired, no step produces a missed record, a missed-call push or a
\* timeout-driven call-ended for that channel.
C3_NoTimeoutAfterResponse ==
  [][\A ch \in responded \ firedFirst :
       /\ MissedRecords(ch)' = MissedRecords(ch)
       /\ MissedCallPushes(ch)' = MissedCallPushes(ch)
       /\ TimeoutCallEnded(ch)' = TimeoutCallEnded(ch)]_vars

\* C4: in every reachable state no identity is caller or callee of more than
\* one CallSession of the call table.
C4_OneCallPerIdentity ==
  \A u \in Users : Cardinality(InFlight(u)) <= 1

\* C4 witness: a call is in flight on one channel and an invite on another
\* channel was refused with call-busy.
C4_Witness ==
  \E ch \in Channels, e \in DOMAIN emitted :
    /\ activeCalls[ch] # NoCall
    /\ e.type = "call-busy" /\ e.channelId # ch

\* C5: once a channel identifier is in the ended-or-rejected set, no step
\* relays a call-invite, dispatches an incoming-call push, sets the invite-sent
\* marker or creates a CallSession for it.
C5_TerminalChannelStaysSilent ==
  [][\A ch \in endedOrRejectedChannels :
       /\ Relays(ch)' = Relays(ch)
       /\ IncomingCallPushes(ch)' = IncomingCallPushes(ch)
       /\ (ch \in callInviteSentForChannel' => ch \in callInviteSentForChannel)
       /\ (activeCalls'[ch] # NoCall => activeCalls[ch] # NoCall)]_vars

\* C6: for every channel identifier at most one call-history record is ever
\* written.
C6_OneHistoryRecordPerChannel ==
  \A ch \in Channels : HistoryRecords(ch) <= 1

\* C10: a channel whose invite passed validation and that saw no accept, reject,
\* end or disconnect is, once no invite handler and no ring timer is left for
\* it, terminal with exactly one missed record of zero duration; and the step
\* at which its ring timer fires leaves it so and emits call-ended to each
\* participant the registry holds.
RingQuiet(ch) ==
  /\ \A t \in timers : t.channelId # ch
  /\ \A h \in BagToSet(pending) : h.kind = "call-invite" => h.channelId # ch
TerminalMissed(ch) ==
  /\ ch \in endedOrRejectedChannels
  /\ ch \notin callInviteSentForChannel
  /\ activeCalls[ch] = NoCall
  /\ callRingTimeouts[ch] = NoTimer
  /\ MissedRecords(ch) = 1 /\ HistoryRecords(ch) = 1
CallEndedTo(c, ch) ==
  LET P(e) == e.type = "call-ended" /\ e.channelId = ch /\ e.to = c
              /\ e.src = "ring-timeout"
  IN CountWhere(emitted, P)
C10_RingTimerEndsCall ==
  [][\A ch \in Channels : (ch \in validated' /\ ch \notin touched') =>
       /\ RingQuiet(ch)' => TerminalMissed(ch)'
       /\ \A t \in timers :
            (t.channelId = ch /\ MissedRecords(ch)' = MissedRecords(ch) + 1) =>
              /\ TerminalMissed(ch)'
              /\ \A u \in {t.callerId, t.calleeId} :
                   activeUsers[u] # NoConn =>
                     CallEndedTo(activeUsers[u], ch)' > CallEndedTo(activeUsers[u], ch)]_vars

\* C2: whenever no handler is suspended, the call table, the dedup sets, the
\* ring-timer table, the events and the history are those that running the
\* handlers of the events received one at a time, in some order, would leave.
C2_SerialOutcome ==
  pending = EmptyBag =>
    Observable(Cur) \in {Observable(o) : o \in SerialOutcomes(SerialStart, log)}

\* How many chats hold both a and b
ChatsOf(a, b) == Cardinality({i \in DOMAIN chats : {a, b} \subseteq Participants(chats[i])})
\* How many POST /create requests were received: each is suspended or answered
RouteRequests ==
  LET P(h) == h.kind = "create"
      Q(e) == e.type \in {"200", "400", "404", "500"}
  IN CountWhere(chatPending, P) + CountWhere(delivered, Q)
MessageReadEvents(m) ==
  LET P(e) == e.type = "message-read" /\ e.messageId = m IN CountWhere(delivered, P)

\* C7: while send-message events are the only chat requests received, at most
\* one ChatSession exists for every unordered pair of identities, however the
\* handling of those events overlapped.
C7_OneChatPerPair ==
  RouteRequests = 0 => \A a \in Users : \A b \in Users \ {a} : ChatsOf(a, b) <= 1

\* C8: for every message at most one message-read event is ever emitted to its
\* sender, whatever mark-read events were handled and however their handling
\* overlapped.
C8_OneMessageReadPerMessage ==
  \A m \in DOMAIN messages : MessageReadEvents(m) <= 1

\* C9: the disconnect of a socket that the registry does not hold for its
\* identity leaves the identity's entry of the registry as it is.
C9_StaleDisconnectKeepsEntry ==
  [][\A c \in connected :
       (c \notin connected' /\ activeUsers[UserId(c)] # c) =>
         activeUsers'[UserId(c)] = activeUsers[UserId(c)]]_vars

\* The events a step emits, and the call state it may change
NewEvents == emitted' (-) emitted
OneNewEvent(type, to, ch) ==
  /\ BagCardinality(NewEvents) = 1
  /\ \A e \in BagToSet(NewEvents) : e.type = type /\ e.to = to /\ e.channelId = ch
CallStateUnchanged ==
  UNCHANGED <<activeCalls, callInviteSentForChannel, endedOrRejectedChannels,
              callRingTimeouts, timers, pending, history>>

\* C11: a call-invite carrying channelId, callerId and calleeId for a channel
\* of the ended-or-rejected set emits one call-ended to the inviting socket and
\* nothing else, and leaves the call table, the dedup sets, the ring timers,
\* the suspended handlers and the history as they are.
C11_InviteOnEndedChannel ==
  [][\A c \in connected, d \in InvitePayloads(Users, Channels) :
       (d.channelId \in endedOrRejectedChannels /\ CallInvite(c, d, FALSE)) =>
         /\ OneNewEvent("call-ended", c, d.channelId)
         /\ CallStateUnchanged]_vars

\* C11 witness: an invite was answered with call-ended on an ended channel.
C11_Witness ==
  \E e \in DOMAIN emitted :
    /\ e.type = "call-ended" /\ e.src = "call-invite"
    /\ e.channelId \in endedOrRejectedChannels

\* What the busy refusal of suspended call-invite handler h amounts to: one
\* call-busy to the inviting socket, and no CallSession, invite-sent marker,
\* ring timer, history record, relay or push.
RefusedBusy(h) ==
  /\ OneNewEvent("call-busy", h.socket, h.channelId)
  /\ UNCHANGED <<activeCalls, callInviteSentForChannel, endedOrRejectedChannels,
                 callRingTimeouts, timers, history>>
  /\ pending' = pending (-) SetToBag({h})
OtherwiseValid(h) == UserFindById(h.calleeId) # Null /\ UserFindById(h.calleeId).isActive

\* C12 as stated: a valid call-invite on a fresh channel that was received
\* while its caller or its callee was in a call on another channel is refused
\* with call-busy when it resumes.
C12_BusyWhenIssued ==
  [][\A h \in issuedBusy :
       (OtherwiseValid(h) /\ CallInviteCallee(h, TRUE)) => RefusedBusy(h)]_vars

\* C12: a valid call-invite on a fresh channel that resumes from its callee
\* lookup while its caller or its callee is in a call on another channel emits
\* call-busy to the inviting socket only and creates no CallSession, no
\* invite-sent marker, no ring timer, no relay and no push for its channel.
C12_BusyWhenChecked ==
  [][\A h \in BagToSet(pending) :
       (/\ OtherwiseValid(h)
        /\ CallsElsewhere(Cur, UserId(h.socket), h.channelId) \cup
           CallsElsewhere(Cur, h.calleeId, h.channelId) # {}
        /\ CallInviteCallee(h, TRUE)) => RefusedBusy(h)]_vars

\* C12 witness: an invite was refused with call-busy while a call is in flight
\* on another channel and nothing exists for the refused channel.
C12_Witness ==
  \E e \in DOMAIN emitted :
    /\ e.type = "call-busy"
    /\ \E x \in Channels \ {e.channelId} : activeCalls[x] # NoCall
    /\ activeCalls[e.channelId] = NoCall
    /\ e.channelId \notin callInviteSentForChannel
    /\ Relays(e.channelId) = 0 /\ IncomingCallPushes(e.channelId) = 0

\* C13: a call-accept for a channel that has no CallSession, or from a socket
\* whose identity is not the callee of the channel's CallSession, emits one
\* call-error to the sender and nothing else, and leaves the call table (the
\* accepted time included), the ring timers and the rest of the call state as
\* they are.
C13_AcceptRefused ==
  [][\A c \in connected, d \in AcceptPayloads(Users, Channels) :
       (/\ \/ activeCalls[d.channelId] = NoCall
           \/ activeCalls[d.channelId].calleeId # UserId(c)
        /\ CallAccept(c, d, FALSE)) =>
         /\ OneNewEvent("call-error", c, d.channelId)
         /\ CallStateUnchanged]_vars

\* C13 witness: an accept from another identity than the callee was answered
\* with call-error, and the call still rings unaccepted.
C13_Witness ==
  \E e \in DOMAIN emitted :
    /\ e.type = "call-error" /\ e.src = "call-accept"
    /\ activeCalls[e.channelId] # NoCall
    /\ activeCalls[e.channelId].calleeId # UserId(e.to)
    /\ ~activeCalls[e.channelId].acceptedAt
    /\ callRingTimeouts[e.channelId] # NoTimer

AcceptedRelays(ch) ==
  LET P(e) == e.type = "call-accepted" /\ e.channelId = ch IN CountWhere(emitted, P)

\* C14: for every channel identifier at most one call-accepted event is ever
\* relayed, however many call-accept events the callee sends for it.
C14_OneAcceptedPerChannel ==
  \A ch \in Channels : AcceptedRelays(ch) <= 1

\* The callers of the CallSessions channel ch has or had a history record for
CallersOfRecord(ch) ==
  (IF activeCalls[ch] # NoCall THEN {activeCalls[ch].callerId} ELSE {})
    \cup {r.callerId : r \in {x \in DOMAIN history : x.channelId = ch}}

\* C15: every call-accepted and every call-rejected event of a channel is
\* emitted to a socket of the caller of that channel's CallSession, whatever
\* callerId the call-accept or call-reject carries.
C15_AnswerToCallerOfRecord ==
  [][\A e \in BagToSet(NewEvents) :
       e.type \in {"call-accepted", "call-rejected"} =>
         UserId(e.to) \in CallersOfRecord(e.channelId)]_vars

RejectedRecords(ch) ==
  LET P(r) == r.channelId = ch /\ r.status = "rejected" /\ r.durationSeconds = "0"
  IN CountWhere(history, P)
\* Suspended call-reject handler h was sent by the callee of the channel's
\* CallSession and names its caller: its history record says so.
RejectByCallee(h) ==
  /\ h.kind = "call-reject"
  /\ \E r \in DOMAIN history :
       /\ r.channelId = h.channelId /\ r.status = "rejected"
       /\ r.calleeId = UserId(h.socket) /\ r.callerId = h.callerId
NewEventTo(type, to, ch) ==
  \E e \in BagToSet(NewEvents) : e.type = type /\ e.to = to /\ e.channelId = ch

\* C16: when a call-reject sent by the callee of a ringing channel, naming its
\* caller, completes, the channel has no ring timer, is in ended-or-rejected
\* and not in invite-sent, has no CallSession and has exactly one rejected
\* history record, of zero duration and no other; call-rejected is emitted to
\* the caller if the registry holds it, and call-ended to the rejecting socket.
C16_RejectCompletes ==
  [][\A h \in BagToSet(pending) :
       (RejectByCallee(h) /\ CallRejectHistory(h)) =>
         /\ callRingTimeouts'[h.channelId] = NoTimer
         /\ \A t \in timers' : t.channelId # h.channelId
         /\ h.channelId \in endedOrRejectedChannels'
         /\ h.channelId \notin callInviteSentForChannel'
         /\ activeCalls'[h.channelId] = NoCall
         /\ RejectedRecords(h.channelId)' = 1
         /\ HistoryRecords(h.channelId)' = 1
         /\ activeUsers[h.callerId] # NoConn =>
              NewEventTo("call-rejected", activeUsers[h.callerId], h.channelId)
         /\ NewEventTo("call-ended", h.socket, h.channelId)]_vars

\* C17: a call-reject for a channel that has no CallSession, or from a socket
\* whose identity is not the callee of the channel's CallSession, leaves the
\* call table, the dedup sets, the ring timers and the history as they are
\* and emits nothing to another socket.
C17_RejectRefused ==
  [][\A c \in connected, d \in RejectPayloads(Users, Channels) :
       (/\ \/ activeCalls[d.channelId] = NoCall
           \/ activeCalls[d.channelId].calleeId # UserId(c)
        /\ CallReject(c, d, FALSE)) =>
         /\ UNCHANGED <<activeCalls, callInviteSentForChannel, endedOrRejectedChannels,
                        callRingTimeouts, timers, history>>
         /\ \A e \in BagToSet(NewEvents) : e.to = c]_vars

\* C18: a call-end from a socket whose identity is neither caller nor callee
\* of the channel's CallSession changes no call state, writes no history
\* record, suspends no handler and emits no call-ended to a participant.
C18_EndByStranger ==
  [][\A c \in connected, d \in ChannelPayloads(Channels) :
       (/\ activeCalls[d.channelId] # NoCall
        /\ UserId(c) \notin {activeCalls[d.channelId].callerId,
                             activeCalls[d.channelId].calleeId}
        /\ CallEnd(c, d, FALSE)) =>
         /\ CallStateUnchanged
         /\ \A e \in BagToSet(NewEvents) :
              e.type = "call-ended" =>
                UserId(e.to) \notin {activeCalls[d.channelId].callerId,
                                     activeCalls[d.channelId].calleeId}]_vars

AnsweredRecords(ch) ==
  LET P(r) == r.channelId = ch /\ r.status = "answered" IN CountWhere(history, P)
\* Suspended call-end handler h was sent by the caller or the callee of the
\* channel's CallSession: its history record says so.
EndByParticipant(h) ==
  /\ h.kind = "call-end"
  /\ \E r \in DOMAIN history :
       /\ r.channelId = h.channelId /\ r.status = "answered"
       /\ UserId(h.socket) \in {r.callerId, r.calleeId}
Terminal(ch) ==
  /\ ch \in endedOrRejectedChannels
  /\ ch \notin callInviteSentForChannel
  /\ activeCalls[ch] = NoCall
  /\ callRingTimeouts[ch] = NoTimer
  /\ \A t \in timers : t.channelId # ch

\* C19: a call-end from the caller or the callee of a channel's CallSession
\* emits call-ended to the sender and to the other participant if the
\* registry holds it; and the step at which its handler completes leaves the
\* channel in ended-or-rejected, not in invite-sent, with no CallSession and
\* with no ring timer.
C19_EndByParticipant ==
  [][/\ \A c \in connected, d \in ChannelPayloads(Channels) :
          LET call == activeCalls[d.channelId]
              other == IF call.callerId = UserId(c) THEN call.calleeId ELSE call.callerId
          IN (/\ call # NoCall
              /\ UserId(c) \in {call.callerId, call.calleeId}
              /\ CallEnd(c, d, FALSE)) =>
               /\ NewEventTo("call-ended", c, d.channelId)
               /\ activeUsers[other] # NoConn =>
                    NewEventTo("call-ended", activeUsers[other], d.channelId)
     /\ \A h \in BagToSet(pending) :
          (EndByParticipant(h) /\ CallEndHistory(h)) => Terminal(h.channelId)']_vars

\* C20: a history record with outcome answered is written for a channel only
\* if the channel's CallSession had been accepted (its accepted time stamped)
\* before it ended: every step that adds an answered record for a channel
\* starts in a state whose CallSession for that channel is accepted.
C20_AnsweredOnlyIfAccepted ==
  [][\A ch \in Channels :
       AnsweredRecords(ch)' > AnsweredRecords(ch) =>
         (activeCalls[ch] # NoCall /\ activeCalls[ch].acceptedAt)]_vars

\* The history records of channel ch in a bag of records
HistoryOf(h, ch) ==
  LET rs == {r \in DOMAIN h : r.channelId = ch} IN [r \in rs |-> h[r]]
\* Connection c belongs to the caller or the callee of the CallSession of ch
Participant(c, ch) ==
  /\ activeCalls[ch] # NoCall
  /\ UserId(c) \in {activeCalls[ch].callerId, activeCalls[ch].calleeId}

\* C21: when a participant's connection drops while a CallSession naming it
\* is in the call table, exactly one history record is written for that
\* channel, the same one a call-end by that participant would have written at
\* that moment.
C21_DisconnectWritesHistory ==
  [][\A c \in connected, ch \in Channels :
       (Participant(c, ch) /\ Disconnect(c)) =>
         /\ HistoryRecords(ch)' = HistoryRecords(ch) + 1
         /\ HistoryOf(history', ch) = HistoryOf(CallEndF(Cur, c, [channelId |-> ch]).history, ch)]_vars

\* call-accept by the callee of record finds no connection for the callerId
\* of its payload (lines 286-291)
CallerUnreachable(c, d) ==
  /\ d.channelId # "" /\ d.callerId # "" /\ d.answer # ""
  /\ activeCalls[d.channelId] # NoCall
  /\ ~NotCallee(activeCalls[d.channelId], c)
  /\ activeUsers[d.callerId] = NoConn

\* C22: when call-accept finds the caller unreachable, the CallSession is
\* removed and no history record is written for that channel, neither at that
\* moment nor at any later time.
C22_NoHistoryWhenCallerGone ==
  [][/\ \A c \in connected, d \in AcceptPayloads(Users, Channels) :
          (CallerUnreachable(c, d) /\ CallAccept(c, d, FALSE)) =>
             /\ activeCalls'[d.channelId] = NoCall
             /\ HistoryRecords(d.channelId)' = HistoryRecords(d.channelId)
     /\ \A ch \in callerGone : HistoryRecords(ch)' = HistoryRecords(ch)]_vars

\* Suspended call-invite handler h, about to resume from its callee lookup,
\* passes every check: the callee is active, holds a device token and neither
\* party is in a call (lines 145-162)
ValidForToken(h) ==
  /\ h.kind = "call-invite" /\ h.pc = "callee"
  /\ OtherwiseValid(h) /\ UserFindById(h.calleeId).fcmToken # ""
  /\ ~Busy(Cur, UserId(h.socket), h.calleeId)
\* The step scheduled a ring timer for ch and registered it (lines 216-257)
RingTimerStarted(ch) ==
  /\ callRingTimeouts'[ch] # NoTimer
  /\ \E t \in timers' \ timers : t.channelId = ch /\ t.timeoutId = callRingTimeouts'[ch]

\* C23: for a valid call-invite to a callee that holds a device token, the
\* step resuming from the callee lookup relays call-invite when the callee has
\* a presence entry and otherwise emits call-unavailable to the caller and
\* relays nothing; either way the handler goes on, and its last step
\* dispatches exactly one incoming-call push and starts the ring timer.
C23_PushWhetherOnlineOrNot ==
  [][/\ \A h \in BagToSet(pending) :
          (ValidForToken(h) /\ CallInviteCallee(h, TRUE)) =>
             /\ IF activeUsers[h.calleeId] = NoConn
                THEN OneNewEvent("call-unavailable", h.socket, h.channelId)
                ELSE OneNewEvent("call-invite", activeUsers[h.calleeId], h.channelId)
             /\ BagIn([h EXCEPT !.pc = "caller", !.fcmToken = UserFindById(h.calleeId).fcmToken],
                      pending')
     /\ \A h \in BagToSet(pending), found \in BOOLEAN :
          (h.kind = "call-invite" /\ h.pc = "caller" /\ h.fcmToken # ""
             /\ CallInviteCaller(h, found)) =>
             /\ OneNewEvent("push-incoming-call", NoConn, h.channelId)
             /\ RingTimerStarted(h.channelId)]_vars

\* Ring timer t belongs to a channel whose call-invite passed validation and
\* which is not terminal (lines 164, 216-257)
Ringing(t) ==
  /\ t \in timers
  /\ t.channelId \in callInviteSentForChannel
  /\ t.channelId \notin endedOrRejectedChannels
\* The step emitted call-offer to connection c for ch, carrying the offer
\* the invites carry (line 432)
OfferSentTo(c, ch) ==
  \E e \in BagToSet(NewEvents) :
    /\ e.type = "call-offer" /\ e.to = c /\ e.channelId = ch
    /\ e.data.offer = OfferPayload(Offer)

\* C24: for every channel whose call-invite passed validation and which has
\* not reached a terminal state, a call-request-offer from the callee of
\* record is answered with call-offer carrying that invite's offer, also when
\* the callee connected only after the invite.
C24_OfferForCalleeOfRecord ==
  [][\A t \in timers, c \in connected :
       (/\ Ringing(t) /\ UserId(c) = t.calleeId
        /\ CallRequestOffer(c, [channelId |-> t.channelId])) =>
          OfferSentTo(c, t.channelId)]_vars

\* A second session description, sent without its type: the handler stores
\* it as { type: 'offer', sdp } (lines 137-139)
OtherOffer == [type |-> "", sdp |-> "v=1"]

\* One channel between two identities, its invites carrying either offer.
NextOffer ==
  \/ Presence({"u1", "u2"}, MaxSockets)
  \/ ClientEvent({"u1", "u2"}, {"x"}, MaxOfferRequests)
  \/ \E c \in connected,
        d \in [channelId : {"x"}, callerId : {"u1", "u2"}, calleeId : {"u1", "u2"},
               offer : {OtherOffer}] :
       nreq < MaxOfferRequests /\ CallInvite(c, d, FALSE)
  \/ Continue(BOOLEAN)

SpecOffer == Init /\ [][NextOffer]_vars

\* C25: a call-offer event is emitted only to a connection whose identity is
\* the callee of record of an existing CallSession for the requested channel,
\* it carries exactly that session's cached offer, and a call-request-offer
\* changes no state.
C25_OfferOnlyToCallee ==
  [][/\ \A e \in BagToSet(NewEvents) :
          e.type = "call-offer" =>
            /\ activeCalls[e.channelId] # NoCall
            /\ e.to \in connected
            /\ UserId(e.to) = activeCalls[e.channelId].calleeId
            /\ e.data.offer = activeCalls[e.channelId].offer
     /\ \A c \in connected, d \in ChannelPayloads(Channels) :
          CallRequestOffer(c, d) =>
            /\ CallStateUnchanged
            /\ UNCHANGED <<activeUsers, connected, sockets>>
            /\ BagCardinality(NewEvents) <= 1]_vars

\* C25 witness: the callee was sent the offer of the session in the call
\* table, the one of the later of two invites.
C25_Witness ==
  \E e \in DOMAIN emitted :
    /\ e.type = "call-offer" /\ e.data.offer = OfferPayload(OtherOffer)
    /\ activeCalls[e.channelId].offer = e.data.offer
    /\ activeCalls[e.channelId].calleeId = UserId(e.to)
    /\ \E i \in DOMAIN emitted :
         /\ i.type = "call-invite" /\ i.channelId = e.channelId
         /\ i.data.offer = OfferPayload(Offer)

\* C26: while a channel X is ringing (its invite passed validation, its ring
\* timer is pending and it is not terminal), a valid call-invite on another
\* channel Y whose caller or callee is the caller or callee of X is refused
\* with call-busy when it reaches the busy check, whether or not the callee
\* of X had a live connection when X was invited.
C26_BusyWhileRinging ==
  [][\A t \in timers, h \in BagToSet(pending) :
       (/\ Ringing(t)
        /\ h.kind = "call-invite" /\ h.pc = "callee" /\ h.channelId # t.channelId
        /\ OtherwiseValid(h)
        /\ {UserId(h.socket), h.calleeId} \cap {t.callerId, t.calleeId} # {}
        /\ CallInviteCallee(h, TRUE)) => RefusedBusy(h)]_vars

\* C27: a call-accept for a channel identifier that is in ended-or-rejected
\* is answered to the sender with one call-ended echo and changes no state.
C27_AcceptOnEndedChannel ==
  [][\A c \in connected, d \in AcceptPayloads(Users, Channels) :
       (d.channelId \in endedOrRejectedChannels /\ CallAccept(c, d, FALSE)) =>
         /\ OneNewEvent("call-ended", c, d.channelId)
         /\ CallStateUnchanged]_vars

\* call-invite payloads, well formed or not: a field may be missing, the ids
\* may carry white space or name an inactive user, the offer may be absent.
AnyInvite ==
  [channelId : {"x", ""}, callerId : {"u1", "u2", "", " u1"},
   calleeId : {"u1", "u2", "", "u0"}, offer : {Offer, NoOffer}]

\* One channel between two identities, its invites of any shape.
NextInvite ==
  \/ Presence({"u1", "u2"}, MaxSockets)
  \/ ClientEvent({"u1", "u2"}, {"x"}, MaxInviteRequests)
  \/ \E c \in connected, d \in AnyInvite :
       nreq < MaxInviteRequests /\ CallInvite(c, d, FALSE)
  \/ Continue(BOOLEAN)

SpecInvite == Init /\ [][NextInvite]_vars

\* The payload d sent on socket c fails a check of lines 107-143
Malformed(c, d) ==
  \/ d.channelId = "" \/ d.callerId = "" \/ d.calleeId = ""
  \/ Trim(d.callerId) # UserId(c)
  \/ Trim(d.calleeId) = UserId(c)
  \/ d.offer = NoOffer
\* Neither ended-or-rejected nor invite-sent (lines 113-119)
Fresh(ch) == ch \notin endedOrRejectedChannels /\ ch \notin callInviteSentForChannel

\* C28: a call-invite on a fresh channel that lacks channelId, callerId or
\* calleeId, whose callerId differs from the socket's identity, whose calleeId
\* equals that identity, or that carries no offer, is refused: the only event
\* emitted is call-error to the sending socket, nothing is relayed or pushed,
\* and the call table, both dedup sets and the ring-timer table are unchanged.
C28_MalformedInviteRefused ==
  [][\A c \in connected, d \in AnyInvite :
       (Fresh(d.channelId) /\ Malformed(c, d) /\ CallInvite(c, d, FALSE)) =>
         /\ OneNewEvent("call-error", c, d.channelId)
         /\ CallStateUnchanged]_vars

\* C28 witness: invites without an offer, to oneself, under another identity
\* and without a channel were each answered with call-error, and the call
\* state is still empty.
C28_Witness ==
  /\ \E e \in DOMAIN emitted :
       e.type = "call-error" /\ e.src = "call-invite" /\ e.data.message = "offer"
  /\ \E e \in DOMAIN emitted :
       e.type = "call-error" /\ e.src = "call-invite"
         /\ e.data.message \in {"yourself", "callerId", "required"}
  /\ \A ch \in Channels : activeCalls[ch] = NoCall /\ callRingTimeouts[ch] = NoTimer
  /\ callInviteSentForChannel = {} /\ endedOrRejectedChannels = {}
  /\ pending = EmptyBag

\* C29: in call-reject and call-end, marking the channel terminal and emitting
\* the terminal events do not wait for the call-history write: whenever such
\* a handler is suspended at its history write, its channel is already in
\* ended-or-rejected, has no CallSession, and the handler's socket has been
\* sent call-ended.
C29_TerminalBeforeHistoryWrite ==
  \A h \in BagToSet(pending) :
    (h.kind \in {"call-reject", "call-end"} /\ h.pc = "history") =>
      /\ h.channelId \in endedOrRejectedChannels
      /\ activeCalls[h.channelId] = NoCall
      /\ \E e \in DOMAIN emitted :
           e.type = "call-ended" /\ e.to = h.socket /\ e.channelId = h.channelId
             /\ e.src = h.kind

\* C30: in send-message, the message-sent confirmation to the sender does not
\* wait for the push-notification dispatch: whenever a send-message handler is
\* suspended at the dispatch of its push, message-sent for its message has
\* already been emitted to its socket.
C30_SentBeforePushCompletes ==
  \A h \in BagToSet(chatPending) :
    (h.kind = "send-message" /\ h.pc = "push") =>
      \E e \in DOMAIN delivered :
        e.type = "message-sent" /\ e.to = h.socket /\ e.messageId = h.messageId

\* The participant of the CallSession of ch other than identity u
OtherParticipant(u, ch) ==
  IF activeCalls[ch].callerId = u THEN activeCalls[ch].calleeId ELSE activeCalls[ch].callerId

C35_EndedStaysEnded ==
  [][endedOrRejectedChannels \subseteq endedOrRejectedChannels']_vars

\* C35 witness: both channels are in the ended-or-rejected set, one put there
\* by its ring timeout, the other by a later handler.
C35_Witness ==
  /\ endedOrRejectedChannels = Channels
  /\ firedFirst # {} /\ firedFirst # Channels

\* C36: call-reject takes effect only while the channel is ringing: for a
\* CallSession that has already been accepted, a call-reject writes no
\* rejected history record and does not terminate the call.
C36_NoRejectAfterAccept ==
  [][/\ \A c \in connected, d \in RejectPayloads(Users, Channels) :
          (/\ activeCalls[d.channelId] # NoCall /\ activeCalls[d.channelId].acceptedAt
           /\ CallReject(c, d, FALSE)) =>
             /\ RejectedRecords(d.channelId)' = RejectedRecords(d.channelId)
             /\ activeCalls'[d.channelId] = activeCalls[d.channelId]
     /\ \A h \in BagToSet(pending) :
          (/\ h.kind = "call-reject"
           /\ activeCalls[h.channelId] # NoCall /\ activeCalls[h.channelId].acceptedAt
           /\ CallRejectHistory(h)) =>
             /\ activeCalls'[h.channelId] = activeCalls[h.channelId]
             /\ h.channelId \notin endedOrRejectedChannels']_vars

\* C37: at any time at most one ring timer is pending per channel identifier,
\* and every pending ring timer is the one recorded in the ring-timer table
\* for its channel.
C37_OneRecordedTimerPerChannel ==
  /\ \A ch \in Channels : Cardinality({t \in timers : t.channelId = ch}) <= 1
  /\ \A t \in timers : callRingTimeouts[t.channelId] = t.timeoutId

\* C38: a call-invite that answers the caller with call-error because a
\* persistence lookup failed leaves behind no CallSession, no invite-sent
\* marker and no relayed call-invite of its own.
C38_FailedInviteHasNoEffect ==
  [][\A h \in BagToSet(pending) :
       (\/ CallInviteCallee(h, FALSE)
        \/ CallInviteCaller(h, FALSE)) =>
          /\ NewEventTo("call-error", h.socket, h.channelId)
          /\ activeCalls'[h.channelId] = NoCall
          /\ h.channelId \notin callInviteSentForChannel'
          /\ Relays(h.channelId)' = 0]_vars

\* C39: every presence-registry entry refers to a connection that is
\* currently open: after any sequence of connects and disconnects, several
\* connections of one identity included, no entry outlives the connection it
\* holds.
C39_EntriesAreOpen ==
  \A u \in Users : activeUsers[u] # NoConn => activeUsers[u] \in connected

\* C39 witness: an identity has an entry for its open second connection while
\* its first connection is closed, and another identity that had connected
\* has no entry any more.
C39_Witness ==
  /\ \E u \in Users :
       /\ activeUsers[u] = <<u, 2>> /\ <<u, 2>> \in connected
       /\ <<u, 1>> \in sockets \ connected
  /\ \E u \in Users : activeUsers[u] = NoConn /\ <<u, 1>> \in sockets

\* ------------------------------------------------------------ credentials
\* User.findById(id) as the credential handlers read it
NoUser == [_id |-> "", isActive |-> FALSE, refreshToken |-> NoToken]
UserDoc(s, id) ==
  IF id \in DOMAIN s.userDocs
  THEN [_id |-> id, isActive |-> s.userDocs[id].isActive,
        refreshToken |-> s.userDocs[id].refreshToken]
  ELSE NoUser

\* socketRefreshTokens.get / .set
StoredToken(s, c) ==
  IF \E p \in s.socketRefreshTokens : p[1] = c
  THEN (CHOOSE p \in s.socketRefreshTokens : p[1] = c)[2]
  ELSE NoToken
StoreToken(s, c, t) ==
  [s EXCEPT !.socketRefreshTokens = {p \in @ : p[1] # c} \cup {<<c, t>>}]

AuthEv(type, to, accessToken, text) ==
  [type |-> type, to |-> to, accessToken |-> accessToken, text |-> text]
AuthEmit(s, e) == [s EXCEPT !.authEvents = @ (+) SetToBag({e})]
SuspendAuth(s, h) == [s EXCEPT !.authPending = @ (+) SetToBag({h})]
ResumeAuth(s, h) == [s EXCEPT !.authPending = @ (-) SetToBag({h})]

\* socket.disconnect(): the disconnect handler runs if the socket is open
SocketDisconnect(s, c) == IF c \in s.connected THEN DisconnectF(s, c) ELSE s

\* io.use middleware up to the user lookup (lines 25-60).  The socket of a
\* handshake that derives an identity u is the next socket <<u, k>>.
HandshakeF(s, token, refreshToken) ==
  LET decoded == IF token # NoToken THEN verifyAccessToken(token) ELSE ""
      refreshDecoded == IF decoded = "" /\ refreshToken # NoToken
                        THEN verifyRefreshToken(refreshToken) ELSE ""
      userId == IF decoded # "" THEN decoded ELSE refreshDecoded
      id == <<userId, Cardinality({c \in s.sockets \cup s.handshakes : UserId(c) = userId}) + 1>>
      s1 == [s EXCEPT !.handshakes = @ \cup {id}]
      s2 == IF refreshDecoded # "" THEN StoreToken(s1, id, refreshToken) ELSE s1
  IN
  IF token = NoToken /\ refreshToken = NoToken
  THEN AuthEmit(s, AuthEv("auth-error", NoConn, NoToken, "No token provided"))
  ELSE IF userId = ""
  THEN AuthEmit(s, AuthEv("auth-error", NoConn, NoToken, "Invalid or expired token"))
  ELSE SuspendAuth(s2, [kind |-> "handshake", socket |-> id, userId |-> userId,
                        token |-> token, refreshToken |-> refreshToken])

\* ... from the user lookup to next(), and io.on('connection') (lines 60-95);
\* ok is FALSE when User.findById throws.
HandshakeUserF(s, h, ok) ==
  LET s0 == ResumeAuth(s, h)
      user == UserDoc(s, h.userId)
      s1 == IF h.refreshToken # NoToken THEN StoreToken(s0, h.socket, h.refreshToken) ELSE s0
  IN
  IF ~ok
  THEN AuthEmit(s0, AuthEv("auth-error", h.socket, NoToken, "error"))
  ELSE IF user = NoUser \/ ~user.isActive
  THEN AuthEmit(s0, AuthEv("auth-error", h.socket, NoToken, "User not found or inactive"))
  ELSE IF h.refreshToken # NoToken /\ user.refreshToken # h.refreshToken
  THEN AuthEmit(s0, AuthEv("auth-error", h.socket, NoToken, "Invalid refresh token"))
  ELSE AuthEmit(ConnectionF(s1, h.socket), AuthEv("connected", h.socket, NoToken, ""))

\* The tail shared by refresh-token and the periodic refresh (lines 453-465,
\* 490-502): the user of the decoded token, the stored-token check, the mint.
MintF(s, h) ==
  LET user == UserDoc(s, h.userId) IN
  IF user = NoUser \/ user.refreshToken # h.refreshToken
  THEN SocketDisconnect(AuthEmit(s, AuthEv("token-refresh-error", h.socket, NoToken,
                                           "Invalid refresh token")), h.socket)
  ELSE AuthEmit(s, AuthEv("token-refreshed", h.socket, generateAccessToken(user._id), ""))

\* socket.on('refresh-token') up to the user lookup (lines 436-453)
RefreshTokenF(s, c, d) ==
  LET refreshToken == IF d.refreshToken # NoToken THEN d.refreshToken ELSE StoredToken(s, c)
      decoded == verifyRefreshToken(refreshToken)
  IN
  IF refreshToken = NoToken
  THEN AuthEmit(s, AuthEv("token-refresh-error", c, NoToken, "No refresh token available"))
  ELSE IF decoded = ""
  THEN SocketDisconnect(AuthEmit(s, AuthEv("token-refresh-error", c, NoToken,
                                           "Invalid or expired refresh token")), c)
  ELSE SuspendAuth(s, [kind |-> "refresh-token", socket |-> c, userId |-> decoded,
                       token |-> NoToken, refreshToken |-> refreshToken])

\* ... after the user lookup (lines 453-470)
RefreshTokenUserF(s, h, ok) ==
  LET s0 == ResumeAuth(s, h) IN
  IF ~ok
  THEN AuthEmit(s0, AuthEv("token-refresh-error", h.socket, NoToken, "Error refreshing token"))
  ELSE MintF(s0, h)

\* tokenRefreshInterval callback up to the user lookup (lines 474-490)
TokenRefreshIntervalF(s, c) ==
  LET refreshToken == StoredToken(s, c)
      decoded == verifyRefreshToken(refreshToken)
  IN
  IF refreshToken = NoToken THEN s
  ELSE IF decoded = ""
  THEN SocketDisconnect(AuthEmit(s, AuthEv("token-refresh-error", c, NoToken,
                                           "Refresh token expired")), c)
  ELSE SuspendAuth(s, [kind |-> "interval", socket |-> c, userId |-> decoded,
                       token |-> NoToken, refreshToken |-> refreshToken])

\* ... after the user lookup (lines 490-506)
TokenRefreshIntervalUserF(s, h, ok) ==
  LET s0 == ResumeAuth(s, h) IN
  IF ~ok THEN s0 ELSE MintF(s0, h)

\* POST /verify-otp stores a fresh refresh token for the user (auth.js:74-77)
LoginF(s, u) ==
  [s EXCEPT !.userDocs[u].refreshToken = RefreshToken(u, @.n + 1)]
\* The user document's isActive set to false
DeactivateF(s, u) == [s EXCEPT !.userDocs[u].isActive = FALSE]

\* ------------------------------------------------------------ credential actions
AuthIds == {"u1", "u2"}
AccessTokens == {NoToken, Expired(AccessToken("u1"))} \cup {AccessToken(u) : u \in AuthIds}
RefreshTokens ==
  {NoToken, Expired(RefreshToken("u1", 1))}
    \cup {RefreshToken(u, n) : u \in AuthIds, n \in 1..MaxTokens}
AuthHandlers(kind) == {h \in BagToSet(authPending) : h.kind = kind}

Handshake(token, refreshToken) ==
  Set(Received(HandshakeF(Cur, token, refreshToken)))
HandshakeUser(h, ok) ==
  /\ h \in AuthHandlers("handshake")
  /\ Set(HandshakeUserF(Cur, h, ok))
RefreshTokenRequest(c, d) ==
  /\ c \in connected
  /\ Set(Received(RefreshTokenF(Cur, c, d)))
RefreshTokenUser(h, ok) ==
  /\ h \in AuthHandlers("refresh-token")
  /\ Set(RefreshTokenUserF(Cur, h, ok))
TokenRefreshInterval(c) ==
  /\ c \in connected
  /\ Set(Received(TokenRefreshIntervalF(Cur, c)))
TokenRefreshIntervalUser(h, ok) ==
  /\ h \in AuthHandlers("interval")
  /\ Set(TokenRefreshIntervalUserF(Cur, h, ok))
Login(u) ==
  /\ userDocs[u].refreshToken.n < MaxTokens
  /\ Set(LoginF(Cur, u))
Deactivate(u) ==
  /\ userDocs[u].isActive
  /\ Set(DeactivateF(Cur, u))

\* Handshakes, token refreshes and the users collection changing under them.
NextAuth ==
  \/ \E token \in AccessTokens, refreshToken \in RefreshTokens :
       nreq < MaxAuthRequests /\ Handshake(token, refreshToken)
  \/ \E h \in BagToSet(authPending), ok \in BOOLEAN : HandshakeUser(h, ok)
  \/ \E c \in connected, t \in RefreshTokens :
       nreq < MaxAuthRequests /\ RefreshTokenRequest(c, [refreshToken |-> t])
  \/ \E h \in BagToSet(authPending), ok \in BOOLEAN : RefreshTokenUser(h, ok)
  \/ \E c \in connected : nreq < MaxAuthRequests /\ TokenRefreshInterval(c)
  \/ \E h \in BagToSet(authPending), ok \in BOOLEAN : TokenRefreshIntervalUser(h, ok)
  \/ \E u \in AuthIds : Login(u)
  \/ \E u \in AuthIds : Deactivate(u)
  \/ \E c \in connected : Disconnect(c)

SpecAuth == Init /\ [][NextAuth]_vars

\* Connection c's handshake was refused and is over
Rejected(c) ==
  /\ c \in handshakes \ sockets
  /\ \A h \in BagToSet(authPending) : ~(h.kind = "handshake" /\ h.socket = c)

\* C31: a connection attempt whose access credential validates for an
\* existing active identity is admitted under that identity, for every value
\* of the accompanying refresh credential (absent, equal to the stored one,
\* or different from it).
C31_ValidAccessAdmits ==
  [][\A h \in BagToSet(authPending) :
       (/\ h.kind = "handshake"
        /\ verifyAccessToken(h.token) = h.userId
        /\ UserDoc(Cur, h.userId).isActive
        /\ HandshakeUser(h, TRUE)) =>
          /\ h.socket \in connected'
          /\ activeUsers'[h.userId] = h.socket]_vars

\* C32: whenever admission of a connection attempt is rejected, nothing about
\* that attempt is retained: afterwards there is no presence entry and no
\* remembered refresh credential for the rejected connection.
C32_RejectedLeavesNothing ==
  \A c \in handshakes :
    Rejected(c) => (StoredToken(Cur, c) = NoToken /\ activeUsers[UserId(c)] # c)

\* C33: if an identity becomes inactive after its connection was admitted,
\* that connection is closed at the latest by the next periodic credential
\* re-validation: an interval callback that runs to its end for an open
\* connection of an inactive identity leaves the connection closed.
C33_InactiveClosedByInterval ==
  [][/\ \A c \in connected :
          (/\ ~UserDoc(Cur, UserId(c)).isActive
           /\ TokenRefreshInterval(c)
           /\ authPending' = authPending) => c \notin connected'
     /\ \A h \in BagToSet(authPending) :
          (/\ h.kind = "interval" /\ h.socket \in connected
           /\ ~UserDoc(Cur, UserId(h.socket)).isActive
           /\ TokenRefreshIntervalUser(h, TRUE)) => h.socket \notin connected']_vars

\* C40: every access credential pushed to a connection in a token-refreshed
\* event, by the periodic refresh or by an on-demand refresh-token request,
\* is minted for that connection's own authenticated identity, whatever
\* refresh credential the request payload carries.
C40_MintedForOwnIdentity ==
  \A e \in DOMAIN authEvents :
    e.type = "token-refreshed" => verifyAccessToken(e.accessToken) = UserId(e.to)

====
